---- MODULE Spec2Model ----
(***************************************************************************)
(* Model of training/convert_deepfashion2.py: convert_deepfashion2_to_yolo *)
(* walks <source>/{train,validation}/annos/*.json, turns every mapped      *)
(* instance into a normalised YOLO label line, copies the image and writes *)
(* the label file when at least one line was produced, and finally writes  *)
(* data.yaml.                                                              *)
(*                                                                         *)
(* Numbers.  Box coordinates and image sizes are integers here, so every   *)
(* quotient the code computes in floating point is an exact rational       *)
(* <<numerator, denominator>>; for integers of this size the float         *)
(* comparison 0 <= v <= 1 and the '.6f' rendering (round half to even on   *)
(* the exact value) agree with the rational computation below.  A rendered *)
(* number is kept as its count of millionths: 300000 is '0.300000'.        *)
(***************************************************************************)
EXTENDS Integers, Sequences, FiniteSets, TLC

(* ---------------------------------------------------------------- bounds *)
\* most annotation files in the whole source tree
MaxFiles == 2
\* most entries in all annotation documents of the source tree together
MaxItems == 2

(* ------------------------------------------------------ program constants *)
\* 'trousers' sent to 2, the index of 'shoes'
CategoryMappingShoes ==
    ("short sleeve top" :> 0) @@ ("long sleeve top" :> 0) @@
    ("short sleeve outwear" :> 4) @@ ("long sleeve outwear" :> 4) @@
    ("vest" :> 0) @@ ("sling" :> 0) @@
    ("shorts" :> 1) @@ ("trousers" :> 2) @@ ("skirt" :> 1) @@
    ("short sleeve dress" :> 3) @@ ("long sleeve dress" :> 3) @@
    ("vest dress" :> 3) @@ ("sling dress" :> 3)

CATEGORY_MAPPING ==
    ("short sleeve top" :> 0) @@ ("long sleeve top" :> 0) @@
    ("short sleeve outwear" :> 4) @@ ("long sleeve outwear" :> 4) @@
    ("vest" :> 0) @@ ("sling" :> 0) @@
    ("shorts" :> 1) @@ ("trousers" :> 1) @@ ("skirt" :> 1) @@
    ("short sleeve dress" :> 3) @@ ("long sleeve dress" :> 3) @@
    ("vest dress" :> 3) @@ ("sling dress" :> 3)

CLASSES == <<"top", "bottom", "shoes", "dress", "outerwear", "accessory">>

\* for split in ['train', 'validation']
SPLITS == <<"train", "validation">>

\* yolo_split = 'train' if split == 'train' else 'val'
YoloSplit(split) == IF split = "train" THEN "train" ELSE "val"

\* the four folders os.makedirs creates
OutputDirs == {"images/train", "images/val", "labels/train", "labels/val"}

(* ------------------------------------------------------------ input space *)
\* a JSON number / a JSON string inside a bounding_box list
Num(v) == [num |-> TRUE, v |-> v]
Str == [num |-> FALSE, v |-> 0]

Box(a, b, c, d) == <<Num(a), Num(b), Num(c), Num(d)>>

\* an entry of the annotation object: its key, whether its value is a JSON
\* object, and that object (a record that may lack either field)
Instance(desc) == [key |-> "item", mapping |-> TRUE, desc |-> desc]

\* "source": "shop" -- the reserved metadata key
SourceEntry == [key |-> "source", mapping |-> FALSE, desc |-> <<>>]
\* "pair_id": 1 -- the other metadata key of a DeepFashion2 document: a value
\* that is no descriptor
PairIdEntry == [key |-> "pair_id", mapping |-> FALSE, desc |-> <<>>]

ItemCatalogue ==
    { SourceEntry,
      PairIdEntry,
      \* the scenario of the specification; wider than a 3x3 image
      Instance([category_name |-> "short sleeve top", bounding_box |-> Box(10, 20, 110, 220)]),
      \* a small box: thirds and sixths on a 3x3 image
      Instance([category_name |-> "trousers", bounding_box |-> Box(0, 0, 1, 2)]),
      \* unmapped category
      Instance([category_name |-> "bag", bounding_box |-> Box(10, 20, 110, 220)]),
      \* no category_name
      Instance([bounding_box |-> Box(0, 0, 1, 2)]),
      \* corners swapped: negative width
      Instance([category_name |-> "long sleeve dress", bounding_box |-> Box(110, 20, 10, 220)]),
      \* starts left of the image, centre and width still in [0,1]
      Instance([category_name |-> "long sleeve outwear", bounding_box |-> Box(-10, 20, 110, 220)]),
      \* three values only
      Instance([category_name |-> "skirt", bounding_box |-> <<Num(10), Num(20), Num(110)>>]),
      \* four values, one of them a string
      Instance([category_name |-> "shorts", bounding_box |-> <<Num(10), Str, Num(110), Num(220)>>]) }

\* image files: absent, present but not decodable, or decodable with a size
NoImage == [exists |-> FALSE, readable |-> FALSE, size |-> <<0, 0>>]
CorruptImage == [exists |-> TRUE, readable |-> FALSE, size |-> <<0, 0>>]
Picture(w, h) == [exists |-> TRUE, readable |-> TRUE, size |-> <<w, h>>]
ImageCatalogue == {NoImage, CorruptImage, Picture(200, 400), Picture(3, 3)}

\* sequences over S of length exactly n
RECURSIVE SeqsOfLen(_, _)
SeqsOfLen(S, n) ==
    IF n = 0 THEN {<<>>}
    ELSE {Append(s, x) : s \in SeqsOfLen(S, n - 1), x \in S}

\* a JSON object is a dict: the key "source" (and "pair_id") occurs at most once
KeysUnique(items) ==
    \A i, j \in 1..Len(items) :
        (i # j /\ items[i].key = items[j].key) => items[i].key = "item"

\* annotation documents with exactly n entries: JSON objects, plus (with no
\* entries at all) a file that is not JSON and a JSON array
ObjectDoc(items) == [kind |-> "object", items |-> items]
MalformedDoc == [kind |-> "malformed", items |-> <<>>]
ArrayDoc == [kind |-> "array", items |-> <<>>]
Docs(n) ==
    {ObjectDoc(s) : s \in {t \in SeqsOfLen(ItemCatalogue, n) : KeysUnique(t)}}
        \cup (IF n = 0 THEN {MalformedDoc, ArrayDoc} ELSE {})

\* <annos>/<stem>.json, of n entries, with <image>/<stem>.jpg beside it
FileRecs(n) == {[json |-> d, image |-> i] : d \in Docs(n), i \in ImageCatalogue}

\* n annotation files holding at most b entries together
RECURSIVE FileSeqs(_, _)
FileSeqs(n, b) ==
    IF n = 0 THEN {<<>>}
    ELSE UNION {{<<f>> \o s : f \in FileRecs(c), s \in FileSeqs(n - 1, b - c)} : c \in 0..b}

\* a split of the source tree: whether <split>/annos exists, and its files by
\* base name (the base names of a folder are distinct; they are numbered)
AbsentSplit == [exists |-> FALSE, files |-> <<>>]
PresentSplit(files) == [exists |-> TRUE, files |-> files]

SourceTrees(fs) ==
    UNION {
        {[train |-> t, validation |-> v] :
            t \in (IF nt = 0 THEN {AbsentSplit} ELSE {}) \cup {PresentSplit(SubSeq(fs, 1, nt))},
            v \in (IF nt = Len(fs) THEN {AbsentSplit} ELSE {})
                      \cup {PresentSplit(SubSeq(fs, nt + 1, Len(fs)))}}
        : nt \in 0..Len(fs)}

(* ------------------------------------------------------------------ state *)
VARIABLES
    source,             \* the source tree (read only)
    dirs,               \* output folders that exist
    images,             \* output images: <<yolo_split, stem>> -> the copied image
    labels,             \* output label files: <<yolo_split, stem>> -> lines
    data_yaml,          \* <<>> or <<the manifest>>
    pc,                 \* position in convert_deepfashion2_to_yolo
    exc,                \* the exception that ended the run, "" if none
    printed,            \* the warnings printed so far (progress lines left out)
    split,              \* index into SPLITS of the running split
    anno_files,         \* annotation files of the split not yet iterated
    anno_file,          \* stem of the annotation file in hand
    data,               \* json.load(f)
    img_size,           \* <<img_width, img_height>>
    k,                  \* entries of data iterated so far
    yolo_annotations,   \* lines of the image in hand
    total_images,
    total_annotations,
    visited,            \* history: <<split, stem>> whose loop body has run
    yaml_writes,        \* history: writes of data.yaml in this invocation
    run,                \* history: number of the invocation
    prev                \* history: output left by the previous invocation

vars == <<source, dirs, images, labels, data_yaml, pc, exc, printed, split, anno_files,
          anno_file, data, img_size, k, yolo_annotations, total_images,
          total_annotations, visited, yaml_writes, run, prev>>

out == <<dirs, images, labels, data_yaml>>
locals == <<split, anno_files, anno_file, data, img_size, k, yolo_annotations>>
totals == <<total_images, total_annotations>>
hist == <<visited, yaml_writes, run, prev>>

EmptyDir == [x \in {} |-> 0]

Init ==
    /\ \E n \in 0..MaxFiles : \E fs \in FileSeqs(n, MaxItems) : source \in SourceTrees(fs)
    /\ dirs = {}
    /\ images = EmptyDir
    /\ labels = EmptyDir
    /\ data_yaml = <<>>
    /\ pc = "start"
    /\ exc = ""
    /\ printed = <<>>
    /\ split = 1
    /\ anno_files = {}
    /\ anno_file = 0
    /\ data = ObjectDoc(<<>>)
    /\ img_size = <<0, 0>>
    /\ k = 0
    /\ yolo_annotations = <<>>
    /\ total_images = 0
    /\ total_annotations = 0
    /\ visited = {}
    /\ yaml_writes = 0
    /\ run = 1
    /\ prev = <<>>

(* --------------------------------------------------------- pure functions *)
\* dict.get(key, default)
Get(d, key, default) == IF key \in DOMAIN d THEN d[key] ELSE default

\* the top-left corner taken for the centre: x1 / img_width, y1 / img_height
NormalizeCorner(bbox, size) ==
    LET x1 == bbox[1].v  y1 == bbox[2].v  x2 == bbox[3].v  y2 == bbox[4].v
        img_width == size[1]  img_height == size[2]
    IN  << <<x1, img_width>>, <<y1, img_height>>,
           <<x2 - x1, img_width>>, <<y2 - y1, img_height>> >>

\* lines 97-100: the four quotients, each <<numerator, denominator>>
Normalize(bbox, size) ==
    LET x1 == bbox[1].v  y1 == bbox[2].v  x2 == bbox[3].v  y2 == bbox[4].v
        img_width == size[1]  img_height == size[2]
    IN  << <<x1 + x2, 2 * img_width>>, <<y1 + y2, 2 * img_height>>,
           <<x2 - x1, img_width>>, <<y2 - y1, img_height>> >>

\* the lower bound forgotten: v <= 1
InUnitUpperOnly(q) == q[1] <= q[2]

\* line 103: 0 <= v <= 1, for a quotient with a positive denominator
InUnit(q) == 0 <= q[1] /\ q[1] <= q[2]

\* only the centre validated: all(0 <= v <= 1 for v in [x_center, y_center])
ValidBoundsCentreOnly(geom) == \A i \in 1..2 : 0 <= geom[i][1] /\ geom[i][1] <= geom[i][2]

\* line 103: all(0 <= v <= 1 for v in [x_center, y_center, width, height])
ValidBounds(geom) == \A i \in 1..4 : InUnit(geom[i])

\* f'{v:.6f}' for 0 <= v: millionths, ties to the even neighbour
Fmt6(q) ==
    LET n == q[1] * 1000000
        whole == n \div q[2]
        rest == n % q[2]
    IN  IF 2 * rest < q[2] THEN whole
        ELSE IF 2 * rest > q[2] THEN whole + 1
        ELSE IF whole % 2 = 0 THEN whole ELSE whole + 1

\* line 104: f'{class_id} {x_center:.6f} {y_center:.6f} {width:.6f} {height:.6f}'
FormatLine(class_id, geom) ==
    <<class_id, Fmt6(geom[1]), Fmt6(geom[2]), Fmt6(geom[3]), Fmt6(geom[4])>>

\* the two counts exchanged in the text of data.yaml
YamlContentSwapped(n_images, n_annotations) ==
    [path |-> "abspath(output_dir)", train |-> "images/train", val |-> "images/val",
     nc |-> Len(CLASSES), names |-> CLASSES,
     total_images |-> n_annotations, total_annotations |-> n_images]

\* lines 122-136: the text of data.yaml
YamlContent(n_images, n_annotations) ==
    [path |-> "abspath(output_dir)", train |-> "images/train", val |-> "images/val",
     nc |-> Len(CLASSES), names |-> CLASSES,
     total_images |-> n_images, total_annotations |-> n_annotations]

(* ---------------------------------------------------------------- actions *)
Raise(e) == pc' = "raised" /\ exc' = e

\* lines 38-45: the output folders and the two counters
MakeDirs ==
    /\ pc = "start"
    /\ dirs' = dirs \cup OutputDirs
    /\ total_images' = 0
    /\ total_annotations' = 0
    /\ split' = 1
    /\ pc' = "split"
    /\ UNCHANGED <<printed, source, images, labels, data_yaml, exc, anno_files, anno_file,
                   data, img_size, k, yolo_annotations, hist>>

\* break in place of continue: an absent split ends the loop over the splits
SkipSplitBreak ==
    /\ pc = "split"
    /\ split <= Len(SPLITS)
    /\ ~source[SPLITS[split]].exists
    /\ printed' = Append(printed, <<"Warning: not found, skipping split", SPLITS[split]>>)
    /\ split' = Len(SPLITS) + 1
    /\ UNCHANGED <<source, out, pc, exc, anno_files, anno_file, data, img_size, k,
                   yolo_annotations, totals, hist>>

\* lines 47-54: a split whose annos folder is absent is skipped
SkipSplit ==
    /\ pc = "split"
    /\ split <= Len(SPLITS)
    /\ ~source[SPLITS[split]].exists
    /\ printed' = Append(printed, <<"Warning: not found, skipping split", SPLITS[split]>>)
    /\ split' = split + 1
    /\ UNCHANGED <<source, out, pc, exc, anno_files, anno_file, data, img_size, k,
                   yolo_annotations, totals, hist>>

\* lines 56-57: anno_files = list(Path(anno_dir).glob('*.json'))
GlobAnnos ==
    /\ pc = "split"
    /\ split <= Len(SPLITS)
    /\ source[SPLITS[split]].exists
    /\ anno_files' = DOMAIN source[SPLITS[split]].files
    /\ pc' = "files"
    /\ UNCHANGED <<printed, source, out, exc, split, anno_file, data, img_size, k,
                   yolo_annotations, totals, hist>>

\* line 59: the next annotation file, in whatever order glob listed them
NextFile ==
    /\ pc = "files"
    /\ \E f \in anno_files :
        /\ anno_file' = f
        /\ anno_files' = anno_files \ {f}
        /\ visited' = visited \cup {<<SPLITS[split], f>>}
    /\ pc' = "load"
    /\ UNCHANGED <<printed, source, out, exc, split, data, img_size, k, yolo_annotations,
                   totals, yaml_writes, run, prev>>

\* data.yaml written inside the loop over the splits, at the end of each
EndSplitWritesYaml ==
    /\ pc = "files"
    /\ anno_files = {}
    /\ split' = split + 1
    /\ pc' = "split"
    /\ data_yaml' = <<YamlContent(total_images, total_annotations)>>
    /\ yaml_writes' = yaml_writes + 1
    /\ UNCHANGED <<printed, source, dirs, images, labels, exc, anno_files, anno_file, data,
                   img_size, k, yolo_annotations, totals, visited, run, prev>>

\* line 59: the list is exhausted, on to the next split
EndSplit ==
    /\ pc = "files"
    /\ anno_files = {}
    /\ split' = split + 1
    /\ pc' = "split"
    /\ UNCHANGED <<printed, source, out, exc, anno_files, anno_file, data, img_size, k,
                   yolo_annotations, totals, hist>>

File == source[SPLITS[split]].files[anno_file]

\* lines 60-61: data = json.load(f)
LoadJson ==
    /\ pc = "load"
    /\ IF File.json.kind = "malformed"
       THEN Raise("JSONDecodeError") /\ UNCHANGED data
       ELSE data' = File.json /\ pc' = "exists" /\ UNCHANGED exc
    /\ UNCHANGED <<printed, source, out, split, anno_files, anno_file, img_size, k,
                   yolo_annotations, totals, hist>>

\* lines 63-67: if not os.path.exists(image_path): continue
CheckImage ==
    /\ pc = "exists"
    /\ pc' = IF File.image.exists THEN "open" ELSE "files"
    /\ UNCHANGED <<printed, source, out, exc, locals, totals, hist>>

\* Image.open outside any try: an image that cannot be decoded ends the run
OpenImageRaises ==
    /\ pc = "open"
    /\ IF File.image.readable
       THEN /\ img_size' = File.image.size
            /\ yolo_annotations' = <<>>
            /\ k' = 0
            /\ pc' = "items"
            /\ UNCHANGED <<printed, exc>>
       ELSE /\ Raise("UnidentifiedImageError")
            /\ UNCHANGED <<printed, img_size, yolo_annotations, k>>
    /\ UNCHANGED <<source, out, split, anno_files, anno_file, data, totals, hist>>

\* lines 69-77: Image.open, img.size; on any exception print and continue
OpenImage ==
    /\ pc = "open"
    /\ IF File.image.readable
       THEN /\ img_size' = File.image.size
            /\ yolo_annotations' = <<>>
            /\ k' = 0
            /\ pc' = "items"
            /\ UNCHANGED printed
       ELSE /\ printed' = Append(printed, <<"Error opening", <<SPLITS[split], anno_file>>>>)
            /\ pc' = "files"
            /\ UNCHANGED <<img_size, yolo_annotations, k>>
    /\ UNCHANGED <<source, out, exc, split, anno_files, anno_file, data, totals, hist>>

\* line 79: data.items() of a document that is no JSON object
ItemsOfNonObject ==
    /\ pc = "items"
    /\ data.kind # "object"
    /\ Raise("AttributeError")
    /\ UNCHANGED <<printed, source, out, locals, totals, hist>>

\* lines 79-105: one turn of the loop over data.items()
ProcessItem ==
    /\ pc = "items"
    /\ data.kind = "object"
    /\ k < Len(data.items)
    /\ k' = k + 1
    /\ LET item_key == data.items[k + 1].key
           item_data == data.items[k + 1]
           category == Get(item_data.desc, "category_name", "")
           bbox == Get(item_data.desc, "bounding_box", <<>>)
           geom == Normalize(bbox, img_size)
       IN  IF item_key = "source"
           THEN UNCHANGED <<pc, exc, yolo_annotations, total_annotations>>
           ELSE IF ~item_data.mapping
           THEN Raise("AttributeError") /\ UNCHANGED <<yolo_annotations, total_annotations>>
           ELSE IF category \notin DOMAIN CATEGORY_MAPPING
           THEN UNCHANGED <<pc, exc, yolo_annotations, total_annotations>>
           ELSE IF Len(bbox) # 4
           THEN UNCHANGED <<pc, exc, yolo_annotations, total_annotations>>
           ELSE IF \E i \in 1..4 : ~bbox[i].num
           THEN Raise("TypeError") /\ UNCHANGED <<yolo_annotations, total_annotations>>
           ELSE IF ValidBounds(geom)
           THEN /\ yolo_annotations' =
                       Append(yolo_annotations, FormatLine(CATEGORY_MAPPING[category], geom))
                /\ total_annotations' = total_annotations + 1
                /\ UNCHANGED <<pc, exc>>
           ELSE UNCHANGED <<pc, exc, yolo_annotations, total_annotations>>
    /\ UNCHANGED <<printed, source, out, split, anno_files, anno_file, data, img_size,
                   total_images, hist>>

\* the image and its label file written whether or not a line was produced
CheckAnnotationsAlways ==
    /\ pc = "items"
    /\ data.kind = "object"
    /\ k = Len(data.items)
    /\ pc' = "copy"
    /\ UNCHANGED <<printed, source, out, exc, locals, totals, hist>>

\* line 107: if yolo_annotations
CheckAnnotations ==
    /\ pc = "items"
    /\ data.kind = "object"
    /\ k = Len(data.items)
    /\ pc' = IF yolo_annotations # <<>> THEN "copy" ELSE "files"
    /\ UNCHANGED <<printed, source, out, exc, locals, totals, hist>>

\* the image copied under the name of the source split: images/validation/
CopyImageSourceSplit ==
    /\ pc = "copy"
    /\ images' = (<<SPLITS[split], anno_file>> :> File.image) @@ images
    /\ pc' = "label"
    /\ UNCHANGED <<printed, source, dirs, labels, data_yaml, exc, locals, totals, hist>>

\* lines 109-112: shutil.copy(image_path, images/<yolo_split>/<image_name>)
CopyImage ==
    /\ pc = "copy"
    /\ images' = (<<YoloSplit(SPLITS[split]), anno_file>> :> File.image) @@ images
    /\ pc' = "label"
    /\ UNCHANGED <<printed, source, dirs, labels, data_yaml, exc, locals, totals, hist>>

\* the label file opened with 'a': the lines are added to what is there
WriteLabelAppend ==
    /\ pc = "label"
    /\ LET path == <<YoloSplit(SPLITS[split]), anno_file>>
           old == IF path \in DOMAIN labels THEN labels[path] ELSE <<>>
       IN  labels' = (path :> (old \o yolo_annotations)) @@ labels
    /\ pc' = "count"
    /\ UNCHANGED <<printed, source, dirs, images, data_yaml, exc, locals, totals, hist>>

\* lines 115-117: the label file, '\n'.join(yolo_annotations)
WriteLabel ==
    /\ pc = "label"
    /\ labels' = (<<YoloSplit(SPLITS[split]), anno_file>> :> yolo_annotations) @@ labels
    /\ pc' = "count"
    /\ UNCHANGED <<printed, source, dirs, images, data_yaml, exc, locals, totals, hist>>

\* line 119: total_images += 1
CountImage ==
    /\ pc = "count"
    /\ total_images' = total_images + 1
    /\ pc' = "files"
    /\ UNCHANGED <<printed, source, out, exc, locals, total_annotations, hist>>

\* lines 121-139: data.yaml, after the loop over the splits
WriteYaml ==
    /\ pc = "split"
    /\ split > Len(SPLITS)
    /\ data_yaml' = <<YamlContent(total_images, total_annotations)>>
    /\ yaml_writes' = yaml_writes + 1
    /\ pc' = "done"
    /\ UNCHANGED <<printed, source, dirs, images, labels, exc, locals, totals, visited, run, prev>>

Next ==
    \/ MakeDirs
    \/ SkipSplit
    \/ GlobAnnos
    \/ NextFile
    \/ EndSplit
    \/ LoadJson
    \/ CheckImage
    \/ OpenImage
    \/ ItemsOfNonObject
    \/ ProcessItem
    \/ CheckAnnotations
    \/ CopyImage
    \/ WriteLabel
    \/ CountImage
    \/ WriteYaml

Spec == Init /\ [][Next]_vars

\* lines 147-156: the script is run again, on the same source tree and the
\* same output directory, after a run that completed or was aborted
Rerun ==
    /\ pc \in {"done", "raised"}
    /\ run = 1
    /\ run' = run + 1
    /\ prev' = <<[completed |-> pc = "done", images |-> images, labels |-> labels,
                 data_yaml |-> data_yaml]>>
    /\ pc' = "start"
    /\ exc' = ""
    /\ printed' = <<>>
    /\ split' = 1
    /\ anno_files' = {}
    /\ anno_file' = 0
    /\ data' = ObjectDoc(<<>>)
    /\ img_size' = <<0, 0>>
    /\ k' = 0
    /\ yolo_annotations' = <<>>
    /\ total_images' = 0
    /\ total_annotations' = 0
    /\ visited' = {}
    /\ yaml_writes' = 0
    /\ UNCHANGED <<source, out>>

NextTwice == Next \/ Rerun

SpecTwice == Init /\ [][NextTwice]_vars

(* ------------------------------------------------- what the claims speak of *)
\* the label files written so far, and their lines together
RECURSIVE LineCount(_, _)
LineCount(files, paths) ==
    IF paths = {} THEN 0
    ELSE LET p == CHOOSE q \in paths : TRUE
         IN  Len(files[p]) + LineCount(files, paths \ {p})

Manifest == data_yaml[1]

\* an entry that is an instance with a mapped category and a box of four
\* numbers x1, y1, x2, y2
MappedBox(e) ==
    /\ e.key # "source"
    /\ e.mapping
    /\ "category_name" \in DOMAIN e.desc
    /\ e.desc.category_name \in DOMAIN CATEGORY_MAPPING
    /\ "bounding_box" \in DOMAIN e.desc
    /\ Len(e.desc.bounding_box) = 4
    /\ \A i \in 1..4 : e.desc.bounding_box[i].num

\* ((x1+x2)/2)/W, ((y1+y2)/2)/H, (x2-x1)/W and (y2-y1)/H all within [0,1]
WithinUnit(e, W, H) ==
    LET b == e.desc.bounding_box
    IN  /\ 0 <= b[1].v + b[3].v /\ b[1].v + b[3].v <= 2 * W
        /\ 0 <= b[2].v + b[4].v /\ b[2].v + b[4].v <= 2 * H
        /\ 0 <= b[3].v - b[1].v /\ b[3].v - b[1].v <= W
        /\ 0 <= b[4].v - b[2].v /\ b[4].v - b[2].v <= H

\* the entries of a file that are valid instances, in document order
ValidInstances(file) ==
    IF file.image.exists /\ file.image.readable /\ file.json.kind = "object"
    THEN SelectSeq(file.json.items,
                   LAMBDA e : MappedBox(e) /\ WithinUnit(e, file.image.size[1], file.image.size[2]))
    ELSE <<>>

\* every annotation file of the source tree, as <<split, stem>>
SourceFiles ==
    UNION {{<<SPLITS[s], f>> : f \in DOMAIN source[SPLITS[s]].files} : s \in 1..Len(SPLITS)}

FileAt(sf) == source[sf[1]].files[sf[2]]
OutPath(sf) == <<YoloSplit(sf[1]), sf[2]>>

\* the run is inside the loop body of line 59, working on File
InFile == pc \in {"load", "exists", "open", "items", "copy", "label", "count"}

(* ------------------------------------------------------------------ claims *)
\* C1: when a run into an empty output directory has completed, the 'Total
\* images' of data.yaml is the number of label files written under
\* labels/train and labels/val, and 'Total annotations' is the number of
\* lines of all those label files together.
C1_ManifestCounts ==
    pc = "done" =>
        /\ Manifest.total_images = Cardinality(DOMAIN labels)
        /\ Manifest.total_annotations = LineCount(labels, DOMAIN labels)

C1_Witness ==
    /\ pc = "done"
    /\ Manifest.total_images = 2
    /\ Manifest.total_annotations = 2
    /\ {p[1] : p \in DOMAIN labels} = {"train", "val"}

C1_WitnessTwoLines ==
    /\ pc = "done"
    /\ Manifest.total_images = 1
    /\ Manifest.total_annotations = 2

\* C2: no per-item data issue (a malformed document, an entry that is no
\* descriptor, a box with non-numeric elements, ...) aborts the run before
\* data.yaml is written: the run never ends in an exception.
C2_NeverAborts == pc # "raised"

\* C3: a source annotation file that yields no valid instance leaves neither
\* images/<split>/<stem>.jpg nor labels/<split>/<stem>.txt in an initially
\* empty output directory, and while it is processed neither counter moves.
C3_NothingForEmpty ==
    /\ [](\A sf \in SourceFiles :
            ValidInstances(FileAt(sf)) = <<>> =>
                OutPath(sf) \notin DOMAIN images /\ OutPath(sf) \notin DOMAIN labels)
    /\ [][(InFile /\ ValidInstances(File) = <<>>) =>
            (total_images' = total_images /\ total_annotations' = total_annotations)]_vars

\* a file whose instances are all dropped (unmapped, malformed, out of
\* bounds) has been processed to the end, beside a file that was kept
C3_Witness ==
    /\ pc = "done"
    /\ \E sf \in SourceFiles :
        /\ ValidInstances(FileAt(sf)) = <<>>
        /\ FileAt(sf).image.readable
        /\ Len(FileAt(sf).json.items) = 2
        /\ \A i \in 1..2 : FileAt(sf).json.items[i].key = "item"
        /\ sf \in visited
    /\ labels = EmptyDir

\* C4: no line is written for an instance one of whose normalised values
\* lies outside [0,1]: the lines gathered for the image in hand, and the lines
\* of every label file, are as many as the mapped four-number instances whose
\* four values lie within [0,1], so such an instance is dropped and the other
\* instances of its image are kept.
C4_OutOfUnitDropped ==
    /\ (pc \in {"items", "copy", "label", "count"} /\ data.kind = "object") =>
            Len(yolo_annotations) =
                Len(SelectSeq(SubSeq(data.items, 1, k),
                              LAMBDA e : MappedBox(e) /\ WithinUnit(e, img_size[1], img_size[2])))
    /\ \A sf \in SourceFiles :
            OutPath(sf) \in DOMAIN labels =>
                Len(labels[OutPath(sf)]) = Len(ValidInstances(FileAt(sf)))

\* a label file of one line, from a document of two mapped four-number
\* instances of which one is outside [0,1]
C4_Witness ==
    \E sf \in SourceFiles :
        /\ OutPath(sf) \in DOMAIN labels
        /\ Len(labels[OutPath(sf)]) = 1
        /\ Len(FileAt(sf).json.items) = 2
        /\ \A i \in 1..2 : MappedBox(FileAt(sf).json.items[i])
        /\ \E i \in 1..2 :
              ~WithinUnit(FileAt(sf).json.items[i], FileAt(sf).image.size[1], FileAt(sf).image.size[2])

\* C5: an annotation file whose .jpg is absent is skipped whatever it holds:
\* no step taken on it raises, copies an image, writes a label file or moves a
\* counter, and the loop goes on to the next annotation file.
C5_MissingImageSkipped ==
    [][(InFile /\ ~File.image.exists) =>
          /\ pc' # "raised"
          /\ out' = out
          /\ totals' = totals
          /\ pc' \in {"exists", "files"}]_vars

\* C6: a split whose annos folder is absent is skipped with a warning that
\* names it: the four output folders exist, nothing is written under the
\* skipped split, the run does not abort before it has reached a file of the
\* other split, and a completed run has taken every annotation file of the
\* other split and written data.yaml with the counts of what it wrote (zero
\* when both splits are absent).
C6_AbsentSplitSkipped ==
    /\ pc # "start" => OutputDirs \subseteq dirs
    /\ \A s \in 1..Len(SPLITS) :
          ~source[SPLITS[s]].exists =>
              /\ \A p \in DOMAIN images \cup DOMAIN labels : p[1] # YoloSplit(SPLITS[s])
              /\ (pc # "start" /\ split > s) =>
                    \E i \in 1..Len(printed) :
                        printed[i] = <<"Warning: not found, skipping split", SPLITS[s]>>
              /\ pc = "raised" => visited # {}
              /\ pc = "done" =>
                    /\ data_yaml # <<>>
                    /\ visited = SourceFiles
                    /\ Manifest.total_images = Cardinality(DOMAIN labels)
                    /\ Manifest.total_annotations = LineCount(labels, DOMAIN labels)
    /\ (pc = "done" /\ \A s \in 1..Len(SPLITS) : ~source[SPLITS[s]].exists) =>
          Manifest.total_images = 0 /\ Manifest.total_annotations = 0

\* train/annos is absent, validation was converted and its label file counted
C6_Witness ==
    /\ pc = "done"
    /\ ~source.train.exists
    /\ <<"val", 1>> \in DOMAIN labels
    /\ Manifest.total_images = 1

\* the source root is absent altogether
C6_WitnessNoSource ==
    /\ pc = "done"
    /\ ~source.train.exists
    /\ ~source.validation.exists
    /\ Manifest.total_images = 0

\* C7: a second run on the unchanged source tree into the same output
\* directory, after a run that completed, leaves what the first run left: it
\* does not abort, every label file and copied image it writes has the path
\* and the content it had, and so has data.yaml, in whatever order either run
\* took the annotation files.  (After a run that was aborted the second run
\* is aborted too, and data.yaml stays as it was.)
C7_SecondRunIdentical ==
    /\ (run = 2 /\ prev[1].completed) =>
          /\ pc # "raised"
          /\ labels = prev[1].labels
          /\ images = prev[1].images
          /\ data_yaml = prev[1].data_yaml
    /\ (run = 2 /\ ~prev[1].completed) =>
          /\ pc # "done"
          /\ data_yaml = prev[1].data_yaml

\* the second run has completed, having rewritten two label files of one split
C7_Witness ==
    /\ run = 2
    /\ pc = "done"
    /\ prev[1].completed
    /\ yaml_writes = 1
    /\ {<<"train", 1>>, <<"train", 2>>} \subseteq DOMAIN labels
    /\ visited = SourceFiles

\* an entry that is a descriptor whose category_name is missing or unmapped
Unmapped(e) ==
    /\ e.key # "source"
    /\ e.mapping
    /\ \/ "category_name" \notin DOMAIN e.desc
       \/ e.desc.category_name \notin DOMAIN CATEGORY_MAPPING

AllLines ==
    {yolo_annotations[i] : i \in 1..Len(yolo_annotations)}
        \cup UNION {{labels[p][i] : i \in 1..Len(labels[p])} : p \in DOMAIN labels}

\* C8: every key of CATEGORY_MAPPING is sent to an index of CLASSES; the class
\* id of every line is such an index and neither 2 ('shoes') nor 5
\* ('accessory'); the i-th line of a label file carries
\* CATEGORY_MAPPING[category_name] of the i-th valid instance of its document;
\* and the step taken on an instance whose category_name is missing or not in
\* the mapping adds no line, counts nothing and raises nothing.
C8_ClassIds ==
    /\ [](/\ \A c \in DOMAIN CATEGORY_MAPPING : CATEGORY_MAPPING[c] + 1 \in DOMAIN CLASSES
          /\ \A l \in AllLines : l[1] + 1 \in DOMAIN CLASSES /\ l[1] \notin {2, 5}
          /\ \A sf \in SourceFiles :
                OutPath(sf) \in DOMAIN labels =>
                    /\ Len(labels[OutPath(sf)]) = Len(ValidInstances(FileAt(sf)))
                    /\ \A i \in 1..Len(labels[OutPath(sf)]) :
                          labels[OutPath(sf)][i][1] =
                              CATEGORY_MAPPING[ValidInstances(FileAt(sf))[i].desc.category_name])
    /\ [][(pc = "items" /\ data.kind = "object" /\ k < Len(data.items)
              /\ Unmapped(data.items[k + 1])) =>
            /\ yolo_annotations' = yolo_annotations
            /\ total_annotations' = total_annotations
            /\ pc' = "items"]_vars

\* a label file of one line, of class 'bottom', written for a document that
\* also holds an instance with an unmapped or missing category
C8_Witness ==
    \E sf \in SourceFiles :
        /\ OutPath(sf) \in DOMAIN labels
        /\ Len(labels[OutPath(sf)]) = 1
        /\ labels[OutPath(sf)][1][1] = 1
        /\ \E i \in 1..Len(FileAt(sf).json.items) : Unmapped(FileAt(sf).json.items[i])

\* C9: in one invocation data.yaml is written once, when every annotation
\* file of both splits has been through the loop and none is in hand; after it
\* no image is copied and no label file is written.
C9_ManifestOnceAtEnd ==
    /\ [](/\ yaml_writes <= 1
          /\ pc = "done" => yaml_writes = 1
          /\ data_yaml # <<>> => yaml_writes = 1)
    /\ [][(data_yaml' # data_yaml \/ yaml_writes' # yaml_writes) =>
              (visited = SourceFiles /\ ~InFile /\ pc # "files" /\ split > Len(SPLITS))]_vars
    /\ [][yaml_writes >= 1 => (images' = images /\ labels' = labels)]_vars

\* data.yaml written after a file of each split was converted
C9_Witness ==
    /\ pc = "done"
    /\ yaml_writes = 1
    /\ data_yaml # <<>>
    /\ DOMAIN labels = {<<"train", 1>>, <<"val", 1>>}

Abs(x) == IF x < 0 THEN -x ELSE x

\* m millionths is n/d at 6 decimals
Rounded(m, n, d) == 2 * Abs(m * d - n * 1000000) <= d

\* C10: the lines of a label file are, in document order, those of the valid
\* instances of its document: the class id of the category, then
\* ((x1+x2)/2)/W, ((y1+y2)/2)/H, (x2-x1)/W and (y2-y1)/H at 6 decimals; and
\* 'short sleeve top' with [10,20,110,220] on a 200x400 image is written as
\* '0 0.300000 0.300000 0.500000 0.500000'.
C10_LabelLine ==
    \A sf \in SourceFiles :
        OutPath(sf) \in DOMAIN labels =>
            LET lines == labels[OutPath(sf)]
                valid == ValidInstances(FileAt(sf))
                W == FileAt(sf).image.size[1]
                H == FileAt(sf).image.size[2]
            IN  /\ Len(lines) = Len(valid)
                /\ \A i \in 1..Len(lines) :
                      LET b == valid[i].desc.bounding_box
                          x1 == b[1].v  y1 == b[2].v  x2 == b[3].v  y2 == b[4].v
                      IN  /\ Len(lines[i]) = 5
                          /\ lines[i][1] = CATEGORY_MAPPING[valid[i].desc.category_name]
                          /\ Rounded(lines[i][2], x1 + x2, 2 * W)
                          /\ Rounded(lines[i][3], y1 + y2, 2 * H)
                          /\ Rounded(lines[i][4], x2 - x1, W)
                          /\ Rounded(lines[i][5], y2 - y1, H)
                          /\ (/\ valid[i].desc.category_name = "short sleeve top"
                              /\ <<x1, y1, x2, y2>> = <<10, 20, 110, 220>>
                              /\ <<W, H>> = <<200, 400>>)
                                => lines[i] = <<0, 300000, 300000, 500000, 500000>>

\* the scenario's line is in a label file
C10_Witness ==
    \E sf \in SourceFiles :
        /\ OutPath(sf) \in DOMAIN labels
        /\ FileAt(sf).image.size = <<200, 400>>
        /\ labels[OutPath(sf)][1] = <<0, 300000, 300000, 500000, 500000>>

\* a line whose values are rounded: 1/6, 1/3, 1/3 and 2/3 on a 3x3 image
C10_WitnessRounded ==
    \E p \in DOMAIN labels : labels[p][1] = <<1, 166667, 333333, 333333, 666667>>

\* the image of a file exists and cannot be opened
Unreadable(file) == file.image.exists /\ ~file.image.readable

ErrorOpening(sf) == <<"Error opening", sf>>

\* C11: when the image of the annotation file in hand exists but cannot be
\* opened, the attempt prints a warning that names the path, raises nothing,
\* copies no image, writes no label file, moves no counter and goes on to the
\* next annotation file; no image or label path of such a file ever exists,
\* and a completed run has taken every annotation file and printed the
\* warning of every such file.
C11_UnreadableSkipped ==
    /\ [][(pc = "open" /\ Unreadable(File)) =>
              /\ printed' = Append(printed, ErrorOpening(<<SPLITS[split], anno_file>>))
              /\ pc' = "files"
              /\ exc' = ""
              /\ out' = out
              /\ totals' = totals
              /\ anno_files' = anno_files]_vars
    /\ [](\A sf \in SourceFiles :
            Unreadable(FileAt(sf)) =>
                /\ OutPath(sf) \notin DOMAIN images
                /\ OutPath(sf) \notin DOMAIN labels
                /\ pc = "done" =>
                      /\ visited = SourceFiles
                      /\ \E i \in 1..Len(printed) : printed[i] = ErrorOpening(sf))

\* a completed run that met an undecodable image beside a mapped, well-formed
\* instance, warned, and converted the other annotation file
C11_Witness ==
    /\ pc = "done"
    /\ Cardinality(DOMAIN labels) = 1
    /\ Manifest.total_images = 1
    /\ \E sf \in SourceFiles :
        /\ Unreadable(FileAt(sf))
        /\ Len(FileAt(sf).json.items) = 1
        /\ MappedBox(FileAt(sf).json.items[1])
        /\ printed = <<ErrorOpening(sf)>>

\* the box of a mapped four-number instance lies inside a W x H image
InsideFrame(e, W, H) ==
    LET b == e.desc.bounding_box
    IN  /\ 0 <= b[1].v /\ b[1].v <= b[3].v /\ b[3].v <= W
        /\ 0 <= b[2].v /\ b[2].v <= b[4].v /\ b[4].v <= H

\* its corners are in order, its centre lies inside the image and it is no
\* wider and no higher than the image
CentreAndSizeInside(e, W, H) ==
    LET b == e.desc.bounding_box
        x1 == b[1].v  y1 == b[2].v  x2 == b[3].v  y2 == b[4].v
    IN  /\ x1 <= x2 /\ x2 - x1 <= W
        /\ y1 <= y2 /\ y2 - y1 <= H
        /\ 0 <= x1 + x2 /\ x1 + x2 <= 2 * W
        /\ 0 <= y1 + y2 /\ y1 + y2 <= 2 * H

\* the loop over data.items() is about to take the entry k + 1
AtEntry == pc = "items" /\ data.kind = "object" /\ k < Len(data.items)

\* the step appends a line for the entry / keeps the lines and goes on
Emits == yolo_annotations' # yolo_annotations
Drops == yolo_annotations' = yolo_annotations /\ total_annotations' = total_annotations /\ pc' = "items"

\* C12, as claimed: every instance that is emitted has its box inside the
\* image, 0 <= x1 <= x2 <= img_width and 0 <= y1 <= y2 <= img_height, and an
\* instance whose box extends past an edge of the image is dropped.
C12_EmittedInsideFrame ==
    [][AtEntry =>
          LET e == data.items[k + 1]
          IN  /\ Emits => (MappedBox(e) /\ InsideFrame(e, img_size[1], img_size[2]))
              /\ (MappedBox(e) /\ ~InsideFrame(e, img_size[1], img_size[2])) => Drops]_vars

\* C12, amended: every instance that is emitted has x1 <= x2 and y1 <= y2,
\* its centre inside the image and a width and height no larger than the
\* image's, and a mapped four-number instance that fails one of these is
\* dropped; the box itself may reach past an edge of the image.
C12_EmittedCentreAndSize ==
    [][AtEntry =>
          LET e == data.items[k + 1]
          IN  /\ Emits => (MappedBox(e) /\ CentreAndSizeInside(e, img_size[1], img_size[2]))
              /\ (MappedBox(e) /\ ~CentreAndSizeInside(e, img_size[1], img_size[2])) => Drops]_vars

\* [-10,20,110,220] on a 200x400 image, which starts left of the image, is in
\* a label file as '4 0.250000 0.300000 0.600000 0.500000'
C12_Witness ==
    \E sf \in SourceFiles :
        /\ OutPath(sf) \in DOMAIN labels
        /\ Len(ValidInstances(FileAt(sf))) = 1
        /\ ValidInstances(FileAt(sf))[1].desc.bounding_box[1].v < 0
        /\ ~InsideFrame(ValidInstances(FileAt(sf))[1],
                        FileAt(sf).image.size[1], FileAt(sf).image.size[2])
        /\ labels[OutPath(sf)] = << <<4, 250000, 300000, 600000, 500000>> >>

\* C13: in a run into an empty output directory the image is copied before
\* its label file is written: at every point of the run, also when it was
\* aborted, every label file has the image of its split and base name beside
\* it, and the step that writes a label file finds that image there; when the
\* run has completed the label files and the images have the same base names
\* in each split, these are the files with a valid instance, and those of the
\* validation split are stored under 'val'.
C13_ImageBeforeLabel ==
    /\ [](/\ DOMAIN labels \subseteq DOMAIN images
          /\ \A p \in DOMAIN images : p[1] \in {"train", "val"}
          /\ pc = "done" =>
                /\ DOMAIN images = DOMAIN labels
                /\ DOMAIN labels =
                      {OutPath(sf) : sf \in {t \in SourceFiles : ValidInstances(FileAt(t)) # <<>>}}
                /\ \A sf \in SourceFiles :
                      (sf[1] = "validation" /\ ValidInstances(FileAt(sf)) # <<>>) =>
                          /\ <<"val", sf[2]>> \in DOMAIN labels
                          /\ images[<<"val", sf[2]>>] = FileAt(sf).image)
    /\ [][labels' # labels =>
              \E p \in DOMAIN images :
                  /\ p = <<YoloSplit(SPLITS[split]), anno_file>>
                  /\ images' = images
                  /\ DOMAIN labels' = DOMAIN labels \cup {p}]_vars

\* the run was aborted after an image and its label file of the validation
\* split had been written
C13_Witness ==
    /\ pc = "raised"
    /\ DOMAIN labels = {<<"val", 1>>}
    /\ DOMAIN images = {<<"val", 1>>}

\* between the copy and the label: the image is there, its label file not yet
C13_WitnessBetween ==
    /\ pc = "label"
    /\ <<"val", 1>> \in DOMAIN images
    /\ <<"val", 1>> \notin DOMAIN labels

====
